---- MODULE Spec2Model ----
(***************************************************************************)
(* The lexer of guregu/mark (src/lexer.go): a state-function scanner that  *)
(* runs in its own goroutine and hands items to one consumer over an       *)
(* unbuffered channel.  Positions are byte offsets, counted from 0 as in   *)
(* the Go code; the byte at offset p of a string s is s[p + 1].            *)
(***************************************************************************)
EXTENDS Integers, Sequences, FiniteSets, TLC

(***************************************************************************)
(* Bytes and runes.  A byte is written as the one-character string of its  *)
(* ASCII character; the three non-ASCII bytes stand for the UTF-8 byte     *)
(* classes: C3 leads a two-byte sequence, E2 a three-byte sequence and A9  *)
(* is a continuation byte (C3 A9 is U+00E9, E2 A9 A9 is U+2A69).  The byte *)
(* 0x60, the backquote, is written BQ.                                     *)
(***************************************************************************)
Lead2 == "C3"
Lead3 == "E2"
Cont == "A9"
RuneError == "U+FFFD"
Rune2 == "U+00E9"
Rune3 == "U+2A69"
eof == "eof"
BQ == "bq"

\* utf8.DecodeRuneInString(s[i:]) for 0 <= i < len(s): <<rune, width>>.
\* An ASCII byte is its own rune; a malformed sequence is RuneError, width 1.
DecodeRune(s, i) ==
    LET b == s[i + 1] IN
    IF b = Lead2
    THEN IF i + 1 < Len(s) /\ s[i + 2] = Cont THEN <<Rune2, 2>> ELSE <<RuneError, 1>>
    ELSE IF b = Lead3
    THEN IF i + 2 < Len(s) /\ s[i + 2] = Cont /\ s[i + 3] = Cont
         THEN <<Rune3, 3>> ELSE <<RuneError, 1>>
    ELSE IF b = Cont THEN <<RuneError, 1>>
    ELSE <<b, 1>>

\* s[lo:hi] of Go, for 0 <= lo <= hi <= len(s).
Slice(s, lo, hi) == SubSeq(s, lo + 1, hi)

(***************************************************************************)
(* Regular expressions of package regexp, as syntax trees, matched the way *)
(* a backtracking search does (leftmost-first): Ends(re, s, i) is the      *)
(* sequence of offsets at which a match of re that starts at offset i of s *)
(* can end, in the order the search tries them, so that its first element  *)
(* is the end of the match regexp reports.                                 *)
(***************************************************************************)
Inf == -1
Chr(S) == [t |-> "chr", set |-> S]
NotChr(S) == [t |-> "not", set |-> S]
Cat(parts) == [t |-> "seq", parts |-> parts]
Alt(a, b) == [t |-> "alt", a |-> a, b |-> b]
Rep(r, min, max) == [t |-> "rep", r |-> r, min |-> min, max |-> max, greedy |-> TRUE]
Lazy(r, min, max) == [t |-> "rep", r |-> r, min |-> min, max |-> max, greedy |-> FALSE]
Bot == [t |-> "bot"]
Eot == [t |-> "eot"]

Space == Chr({" "})
Newline == Chr({"\n"})
NotNewline == NotChr({"\n"})
AnyChar == NotChr({})
WhiteSpace == Chr({" ", "\n"})
NotWhiteSpace == NotChr({" ", "\n"})
LineEnd == Alt(Rep(Newline, 1, Inf), Eot)

RECURSIVE Dedup(_, _)
Dedup(q, seen) ==
    IF q = <<>> THEN <<>>
    ELSE IF Head(q) \in seen THEN Dedup(Tail(q), seen)
    ELSE <<Head(q)>> \o Dedup(Tail(q), seen \cup {Head(q)})

RECURSIVE Ends(_, _, _)
RECURSIVE EndsFrom(_, _, _)
RECURSIVE EndsSeq(_, _, _, _)
RECURSIVE EndsRep(_, _, _, _)

\* The ends of re started at each offset of starts, in order.
EndsFrom(re, s, starts) ==
    IF starts = <<>> THEN <<>>
    ELSE Ends(re, s, Head(starts)) \o EndsFrom(re, s, Tail(starts))

EndsSeq(parts, k, s, starts) ==
    IF k > Len(parts) \/ starts = <<>> THEN starts
    ELSE EndsSeq(parts, k + 1, s, Dedup(EndsFrom(parts[k], s, starts), {}))

\* n iterations of re.r are done; an iteration that consumes nothing is not
\* repeated.
EndsRep(re, n, s, i) ==
    LET once == Ends(re.r, s, i)
        adv == SelectSeq(once, LAMBDA e : e > i)
        RECURSIVE Each(_)
        Each(q) == IF q = <<>> THEN <<>>
                   ELSE EndsRep(re, n + 1, s, Head(q)) \o Each(Tail(q))
        more == IF re.max = Inf \/ n < re.max THEN Each(adv) ELSE <<>>
        stop == IF n >= re.min THEN <<i>> ELSE <<>>
    IN  Dedup(IF re.greedy THEN more \o stop ELSE stop \o more, {})

Ends(re, s, i) ==
    CASE re.t = "chr" ->
           IF i < Len(s) /\ DecodeRune(s, i)[1] \in re.set
           THEN <<i + DecodeRune(s, i)[2]>> ELSE <<>>
      [] re.t = "not" ->
           IF i < Len(s) /\ DecodeRune(s, i)[1] \notin re.set
           THEN <<i + DecodeRune(s, i)[2]>> ELSE <<>>
      [] re.t = "bot" -> IF i = 0 THEN <<i>> ELSE <<>>
      [] re.t = "eot" -> IF i = Len(s) THEN <<i>> ELSE <<>>
      [] re.t = "seq" -> EndsSeq(re.parts, 1, s, <<i>>)
      [] re.t = "alt" -> Dedup(Ends(re.a, s, i) \o Ends(re.b, s, i), {})
      [] re.t = "rep" -> EndsRep(re, 0, s, i)

NoMatch == <<"nomatch">>

\* re.FindString(s), with NoMatch where Go returns "" for want of a match.
FindString(re, s) ==
    LET RECURSIVE At(_)
        At(i) == IF i > Len(s) THEN NoMatch
                 ELSE LET e == Ends(re, s, i) IN
                      IF e # <<>> THEN Slice(s, i, e[1]) ELSE At(i + 1)
    IN  At(0)

\* re.MatchString(s)
MatchString(re, s) == FindString(re, s) # NoMatch

(***************************************************************************)
(* The grammar tables.                                                     *)
(***************************************************************************)
reEmphasise(n) ==
    Alt(Cat(<<Bot, Rep(Chr({"_"}), n, n), Lazy(AnyChar, 1, Inf), Rep(Chr({"_"}), n, n)>>),
        Cat(<<Bot, Rep(Chr({"*"}), n, n), Lazy(AnyChar, 1, Inf), Rep(Chr({"*"}), n, n)>>))

reGfmCode(c) ==
    Cat(<<Bot, Rep(Chr({c}), 3, Inf), Rep(Space, 0, Inf),
          Rep(Rep(NotWhiteSpace, 1, Inf), 0, 1), Rep(Space, 0, Inf), Newline,
          Lazy(AnyChar, 1, Inf), Rep(WhiteSpace, 0, Inf), Rep(Chr({c}), 3, Inf),
          Rep(Eot, 0, Inf), LineEnd>>)

blockHeading ==
    Cat(<<Bot, Rep(Space, 0, Inf), Rep(Chr({"#"}), 1, 6), Rep(Space, 0, Inf),
          Lazy(NotNewline, 1, Inf), Rep(Space, 0, Inf), Rep(Chr({"#"}), 0, Inf),
          Rep(Space, 0, Inf), LineEnd>>)

blockHr ==
    Cat(<<Bot, Rep(Cat(<<Rep(Space, 0, Inf), Chr({"-", "*", "_"})>>), 3, Inf),
          Rep(Space, 0, Inf), LineEnd>>)

\* The pattern of an indented code block with a fifth space of indentation.
blockCodeBlockFiveSpaces ==
    Cat(<<Bot, Rep(Cat(<<Rep(Space, 5, 5), Rep(NotNewline, 1, Inf),
                         Rep(Newline, 0, Inf)>>), 1, Inf)>>)

blockCodeBlock ==
    Cat(<<Bot, Rep(Cat(<<Rep(Space, 4, 4), Rep(NotNewline, 1, Inf),
                         Rep(Newline, 0, Inf)>>), 1, Inf)>>)

\* One pattern for both fence characters: any of them opens and any closes.
blockGfmCodeBlockEitherFence ==
    Cat(<<Bot, Rep(Chr({BQ, "~"}), 3, Inf), Rep(Space, 0, Inf),
          Rep(Rep(NotWhiteSpace, 1, Inf), 0, 1), Rep(Space, 0, Inf), Newline,
          Lazy(AnyChar, 1, Inf), Rep(WhiteSpace, 0, Inf), Rep(Chr({BQ, "~"}), 3, Inf),
          Rep(Eot, 0, Inf), LineEnd>>)

blockGfmCodeBlock == Alt(reGfmCode(BQ), reGfmCode("~"))

spanItalic == reEmphasise(1)
spanStrong == reEmphasise(2)
spanStrike ==
    Cat(<<Bot, Rep(Chr({"~"}), 2, 2), Lazy(AnyChar, 1, Inf), Rep(Chr({"~"}), 2, 2)>>)
spanCode ==
    Cat(<<Bot, Rep(Chr({BQ}), 1, 2), Rep(WhiteSpace, 0, Inf),
          Lazy(AnyChar, 0, Inf), NotChr({BQ}), Rep(WhiteSpace, 0, Inf),
          Rep(Chr({BQ}), 1, 2)>>)

(***************************************************************************)
(* Item types, in the order of the const block (iota).                     *)
(***************************************************************************)
itemError == 0
itemNewLine == 1
itemHTML == 2
itemText == 3
itemLineBreak == 4
itemHeading == 5
itemLHeading == 6
itemBlockQuote == 7
itemList == 8
itemCodeBlock == 9
itemGfmCodeBlock == 10
itemHr == 11
itemTable == 12
itemLinks == 13
itemStrong == 14
itemItalic == 15
itemStrike == 16
itemCode == 17
itemImages == 18

\* item{typ, pos, val}
item(t, p, v) == [typ |-> t, pos |-> p, val |-> v]
\* The zero value of item, which a receive on the closed channel delivers.
ZeroItem == item(0, 0, <<>>)

(***************************************************************************)
(* The lexer's methods, as functions of the lexer's fields.  x is a record *)
(* [input, pos, start, width, fault]; fault names the slice expression     *)
(* whose bounds check failed (a run-time panic), "" while there is none.   *)
(* Once a fault is set the remaining operations leave x as it is.          *)
(***************************************************************************)
NoFault == ""
Faulted(x) == x.fault # NoFault
Panic(x, what) == [x EXCEPT !.fault = what]

\* lexer.next: <<rune, x'>>
next(x) ==
    IF Faulted(x) THEN [r |-> eof, l |-> x]
    ELSE LET y == [x EXCEPT !.calls = Append(@, "next")] IN
         IF y.pos >= Len(y.input) THEN [r |-> eof, l |-> [y EXCEPT !.width = 0]]
         ELSE IF y.pos < 0 THEN [r |-> eof, l |-> Panic(y, "next: input[pos:]")]
         ELSE LET d == DecodeRune(y.input, y.pos)
              IN  [r |-> d[1],
                   l |-> [y EXCEPT !.width = d[2], !.pos = y.pos + d[2]]]

\* lexer.backup
backup(x) ==
    IF Faulted(x) THEN x
    ELSE [x EXCEPT !.pos = x.pos - x.width, !.calls = Append(@, "backup")]

\* lexer.peek
peek(x) == LET n == next(x) IN [r |-> n.r, l |-> backup(n.l)]

\* What a state function leaves behind: the lexer's fields, the state function
\* it returns (or, for lexText, the loop it stays in) and the item it has
\* passed to emit, if any.
Return(x, st) == [l |-> x, state |-> st, item |-> <<>>]

\* lexer.emit, up to the send: the item is built from input[start:pos].
emit(x, t, st) ==
    IF Faulted(x) THEN Return(x, st)
    ELSE IF ~(0 <= x.start /\ x.start <= x.pos /\ x.pos <= Len(x.input))
    THEN Return(Panic(x, "emit: input[start:pos]"), st)
    ELSE [l |-> x, state |-> st,
          item |-> <<item(t, x.start, Slice(x.input, x.start, x.pos))>>]

\* input[pos:], the text the block and span patterns are matched against.
Rest(x) == Slice(x.input, x.pos, Len(x.input))
RestOk(x) == 0 <= x.pos /\ x.pos <= Len(x.input)
Advance(x, m) == [x EXCEPT !.pos = x.pos + Len(m)]

\* lexAny
lexAny(x) ==
    LET n == next(x)
        r == n.r
        x1 == n.l
    IN
    IF Faulted(x1) THEN Return(x1, "nil")
    ELSE IF r = eof THEN Return(x1, "nil")
    ELSE IF r \in {"*", "-"}
    THEN LET p1 == peek(x1)
             p2 == peek(p1.l)
         IN  IF p1.r = "*" THEN Return(backup(p1.l), "lexHr")
             ELSE IF p2.r = "-" THEN Return(backup(p2.l), "lexHr")
             ELSE Return(backup(p2.l), "lexList")
    ELSE IF r = "#" THEN Return(backup(x1), "lexHeading")
    ELSE IF r = " " /\ MatchString(blockCodeBlock,
                                   Slice(x1.input, x1.pos - 1, Len(x1.input)))
    THEN Return(backup(x1), "lexCode")
    ELSE IF r \in {" ", BQ, "~"}
    THEN IF x1.pos + 2 > Len(x1.input)
         THEN Return(Panic(x1, "lexAny: input[pos:pos+2]"), "nil")
         ELSE LET c == Slice(x1.input, x1.pos, x1.pos + 2)
              IN  IF c = <<BQ, BQ>> \/ c = <<"~", "~">>
                  THEN Return(backup(x1), "lexGfmCode")
                  ELSE Return(backup(x1), "lexText")
    ELSE Return(backup(x1), "lexText")

\* lexHeading, lexHr and lexGfmCode: match the block pattern at pos, emit it or
\* fall back to lexText.
lexBlock(x, re, t) ==
    IF ~RestOk(x) THEN Return(Panic(x, "input[pos:]"), "nil")
    ELSE IF MatchString(re, Rest(x))
    THEN emit(Advance(x, FindString(re, Rest(x))), t, "lexAny")
    ELSE Return(x, "lexText")

lexHeading(x) == lexBlock(x, blockHeading, itemHeading)
lexHr(x) == lexBlock(x, blockHr, itemHr)
lexGfmCode(x) == lexBlock(x, blockGfmCodeBlock, itemGfmCodeBlock)

\* lexCode: FindString is "" where the pattern does not match.
lexCode(x) ==
    IF ~RestOk(x) THEN Return(Panic(x, "input[pos:]"), "nil")
    ELSE LET m == FindString(blockCodeBlock, Rest(x))
         IN  emit(IF m = NoMatch THEN x ELSE Advance(x, m), itemCodeBlock, "lexAny")

\* lexList
lexList(x) == Return(x, "lexText")

\* The first of the span patterns, in the order strong, italic, strike, inline
\* code, that matches s with a non-empty match: <<item type, match>>, or <<>>.
SpanOrder == <<<<spanStrong, itemStrong>>, <<spanItalic, itemItalic>>,
               <<spanStrike, itemStrike>>, <<spanCode, itemCode>>>>
FirstSpan(s) ==
    LET RECURSIVE Try(_)
        Try(k) == IF k > Len(SpanOrder) THEN <<>>
                  ELSE LET m == FindString(SpanOrder[k][1], s)
                       IN  IF m # NoMatch /\ m # <<>> THEN <<SpanOrder[k][2], m>>
                           ELSE Try(k + 1)
    IN  Try(1)

\* One turn of lexText's loop.
lexText(x) ==
    LET n == next(x)
        r == n.r
        x1 == n.l
        p == peek(x1)
    IN
    IF Faulted(x1) THEN Return(x1, "nil")
    ELSE IF r = eof THEN Return(x1, "lexAny")
    ELSE IF (r = "\n" /\ p.r = "\n") \/ (r = " " /\ p.r = " ")
    THEN emit([p.l EXCEPT !.pos = p.l.pos + 1], itemNewLine, "lexAny")
    ELSE IF r \in {"_", "*", "~", BQ}
    THEN LET x2 == backup(x1)
             sp == FirstSpan(Rest(x2))
         IN  IF ~RestOk(x2) THEN Return(Panic(x2, "lexText: input[pos:]"), "nil")
             ELSE IF sp # <<>> THEN emit(Advance(x2, sp[2]), sp[1], "lexText")
             ELSE emit([x2 EXCEPT !.pos = x2.pos + x2.width], itemText, "lexText")
    \* the case before has called peek, and with it next, when r is a newline
    \* or a space
    ELSE emit(IF r \in {"\n", " "} THEN p.l ELSE x1, itemText, "lexText")

(***************************************************************************)
(* Inputs.  An input is a sequence of bytes; Str writes one as a string.   *)
(***************************************************************************)
Str(x) == [i \in 1..Len(x) |-> SubSeq(x, i, i)]
Fence(c, n) == [i \in 1..n |-> c]

MaxLen == 3
MaxExtraItems == 2

\* The pieces inputs are put together from: the ASCII characters the lexer
\* tells apart, a letter, a two-byte and a three-byte character, and a stray
\* continuation byte (malformed UTF-8).
Pieces ==
    {<<"*">>, <<"-">>, <<"_">>, <<"#">>, <<" ">>, <<"\n">>, <<BQ>>, <<"~">>,
     <<"\\">>, <<"a">>, <<Lead2, Cont>>, <<Lead3, Cont, Cont>>, <<Cont>>}

RECURSIVE Texts(_)
Texts(n) ==
    IF n = 0 THEN {<<>>}
    ELSE LET shorter == Texts(n - 1)
         IN  shorter \cup {t \o q : t \in shorter, q \in Pieces}

\* Inputs of the tests and of the commented-out examples of the test file.
Examples ==
    {Str("___"), Str("- - -"), Str(" ***"),
     Str("Foo bar\n# baz\nBar foo"), Str("foo\n****\nbar"),
     Str("foo\n") \o Fence(BQ, 3) \o Str("\nbar\n") \o Fence(BQ, 3) \o Str("\nbaz"),
     Str("\\*foo\\*"), Str("\\_underscores\\_"), Str("\\## header"),
     Fence(BQ, 3) \o Str("\naaa\n~~~\n") \o Fence(BQ, 3),
     Str("~~~\naaa\n") \o Fence(BQ, 3) \o Str("\n~~~"),
     Fence(BQ, 3) \o Str("\n") \o Fence(BQ, 3),
     Str("####### foo"), Str("# 1\n## 2"), Str("***x***"), Str("___foo___"),
     Str("    ***"), Str("    # foo"), Str("a  # b"), Str("x  ***"),
     Str("fooo  \n***\nafter hr"), Str("~~baz~~ _baz_"), Str("**bar**__baz__"),
     <<BQ>> \o Str("bool") \o <<BQ>> \o Str(" and"),
     Str("1\n\n2"), Str("\n\n*") \o <<Lead3, Cont, Cont>>,
     Str("\n\n-") \o <<Lead2, Cont>> \o Str("a")}

\* Inputs in which lexAny's peek reads a multi-byte character behind a '*' or
\* a '-' that follows a block item or a line break.
AfterPeek ==
    {pre \o <<m>> \o r \o post :
        pre \in {Str("#*\n"), Str("#_\n"), Str("#a\n"), Str("***\n"),
                 Str("\n\n"), Str("  ")},
        m \in {"*", "-"},
        r \in {<<Lead2, Cont>>, <<Lead3, Cont, Cont>>},
        post \in {<<>>, <<"*">>, <<"a">>}}

Inputs == Texts(MaxLen) \cup Examples \cup AfterPeek

(***************************************************************************)
(* The program: the lexers lex() has started, each in its own goroutine,   *)
(* and the consumer of each lexer's items channel.                         *)
(***************************************************************************)
Lexers == {1, 2}

VARIABLES
    input,     \* lexer.input
    state,     \* lexer.state and where its goroutine stands: a state function
               \* about to run, "send" (in emit, blocked on the channel), "sent"
               \* (in emit, the item taken), "nil" (run's loop is over), "done"
               \* (the channel is closed), "panic", or "idle" (lex not called)
    ret,       \* the state function that runs when emit returns
    pos,       \* lexer.pos
    start,     \* lexer.start
    width,     \* lexer.width
    items,     \* lexer.items: the item a blocked send is offering, if any
    closed,    \* whether lexer.items is closed
    fault,     \* the slice expression that panicked
    received,  \* the items the consumer has received from the open channel
    atEOF,     \* what the consumer received from the closed channel
    emitted,   \* history: the items passed to emit
    lastAny,   \* history: pos when lexAny last ran, -1 before
    calls      \* history: the calls of next and backup of the last state function

vars == <<input, state, ret, pos, start, width, items, closed, fault, received,
          atEOF, emitted, lastAny, calls>>

\* lex(name, in) for the lexers of S; the others are not started.
Started(S, in) ==
    /\ input = in
    /\ state = [l \in Lexers |-> IF l \in S THEN "lexAny" ELSE "idle"]
    /\ ret = [l \in Lexers |-> "lexAny"]
    /\ pos = [l \in Lexers |-> 0]
    /\ start = [l \in Lexers |-> 0]
    /\ width = [l \in Lexers |-> 0]
    /\ items = [l \in Lexers |-> <<>>]
    /\ closed = [l \in Lexers |-> FALSE]
    /\ fault = [l \in Lexers |-> NoFault]
    /\ received = [l \in Lexers |-> <<>>]
    /\ atEOF = [l \in Lexers |-> <<>>]
    /\ emitted = [l \in Lexers |-> <<>>]
    /\ lastAny = [l \in Lexers |-> -1]
    /\ calls = [l \in Lexers |-> <<>>]

Init == \E in \in Inputs : Started({1}, [l \in Lexers |-> IF l = 1 THEN in ELSE <<>>])

\* The fields of lexer l.
Fields(l) == [input |-> input[l], pos |-> pos[l], start |-> start[l],
              width |-> width[l], fault |-> NoFault, calls |-> <<>>]

\* An unrecovered panic in any goroutine ends the program.
Running == \A l \in Lexers : state[l] # "panic"

\* The bound on the items of one run; a lexer that stops making progress would
\* emit without end.
MaxItems(l) == 2 * Len(input[l]) + MaxExtraItems

\* Lexer l has run a state function with result res: it panicked, or it is in
\* emit offering an item, or it has returned the next state function.
Step(l, res) ==
    /\ pos' = [pos EXCEPT ![l] = res.l.pos]
    /\ width' = [width EXCEPT ![l] = res.l.width]
    /\ fault' = [fault EXCEPT ![l] = res.l.fault]
    /\ calls' = [calls EXCEPT ![l] = res.l.calls]
    /\ IF Faulted(res.l)
       THEN /\ state' = [state EXCEPT ![l] = "panic"]
            /\ UNCHANGED <<ret, items, emitted>>
       ELSE IF res.item # <<>>
       THEN /\ Len(emitted[l]) < MaxItems(l)
            /\ state' = [state EXCEPT ![l] = "send"]
            /\ ret' = [ret EXCEPT ![l] = res.state]
            /\ items' = [items EXCEPT ![l] = res.item]
            /\ emitted' = [emitted EXCEPT ![l] = emitted[l] \o res.item]
       ELSE /\ state' = [state EXCEPT ![l] = res.state]
            /\ UNCHANGED <<ret, items, emitted>>
    /\ UNCHANGED <<input, start, closed, received, atEOF>>

LexAny(l) ==
    /\ Running /\ state[l] = "lexAny"
    /\ lastAny' = [lastAny EXCEPT ![l] = pos[l]]
    /\ Step(l, lexAny(Fields(l)))

LexHeading(l) ==
    /\ Running /\ state[l] = "lexHeading"
    /\ Step(l, lexHeading(Fields(l)))
    /\ UNCHANGED lastAny

LexHr(l) ==
    /\ Running /\ state[l] = "lexHr"
    /\ Step(l, lexHr(Fields(l)))
    /\ UNCHANGED lastAny

LexGfmCode(l) ==
    /\ Running /\ state[l] = "lexGfmCode"
    /\ Step(l, lexGfmCode(Fields(l)))
    /\ UNCHANGED lastAny

LexCode(l) ==
    /\ Running /\ state[l] = "lexCode"
    /\ Step(l, lexCode(Fields(l)))
    /\ UNCHANGED lastAny

LexList(l) ==
    /\ Running /\ state[l] = "lexList"
    /\ Step(l, lexList(Fields(l)))
    /\ UNCHANGED lastAny

LexText(l) ==
    /\ Running /\ state[l] = "lexText"
    /\ Step(l, lexText(Fields(l)))
    /\ UNCHANGED lastAny

\* Receive with the item put in front of those received before.
ReceiveInFront(l) ==
    /\ Running /\ state[l] = "send" /\ items[l] # <<>>
    /\ received' = [received EXCEPT ![l] = <<Head(items[l])>> \o received[l]]
    /\ items' = [items EXCEPT ![l] = Tail(items[l])]
    /\ state' = [state EXCEPT ![l] = "sent"]
    /\ UNCHANGED <<input, ret, pos, start, width, closed, fault, atEOF,
                   emitted, lastAny, calls>>

\* The consumer receives the item lexer l is offering: the send of emit is over.
Receive(l) ==
    /\ Running /\ state[l] = "send" /\ items[l] # <<>>
    /\ received' = [received EXCEPT ![l] = Append(received[l], Head(items[l]))]
    /\ items' = [items EXCEPT ![l] = Tail(items[l])]
    /\ state' = [state EXCEPT ![l] = "sent"]
    /\ UNCHANGED <<input, ret, pos, start, width, closed, fault, atEOF,
                   emitted, lastAny, calls>>

\* EmitReturn without start = pos.
EmitReturnKeepStart(l) ==
    /\ Running /\ state[l] = "sent"
    /\ state' = [state EXCEPT ![l] = ret[l]]
    /\ UNCHANGED <<input, ret, pos, start, width, items, closed, fault,
                   received, atEOF, emitted, lastAny, calls>>

\* EmitReturn on a channel that takes the item without a receiver.
EmitReturnUnreceived(l) ==
    /\ Running /\ state[l] \in {"send", "sent"}
    /\ start' = [start EXCEPT ![l] = pos[l]]
    /\ state' = [state EXCEPT ![l] = ret[l]]
    /\ UNCHANGED <<input, ret, pos, width, items, closed, fault, received,
                   atEOF, emitted, lastAny, calls>>

\* emit, after the send: start = pos, and the state function goes on.
EmitReturn(l) ==
    /\ Running /\ state[l] = "sent"
    /\ start' = [start EXCEPT ![l] = pos[l]]
    /\ state' = [state EXCEPT ![l] = ret[l]]
    /\ UNCHANGED <<input, ret, pos, width, items, closed, fault, received,
                   atEOF, emitted, lastAny, calls>>

\* Close while the last item may still be offered to the consumer.
CloseUnreceived(l) ==
    /\ Running /\ state[l] \in {"nil", "send"}
    /\ closed' = [closed EXCEPT ![l] = TRUE]
    /\ state' = [state EXCEPT ![l] = "done"]
    /\ UNCHANGED <<input, ret, pos, start, width, items, fault, received,
                   atEOF, emitted, lastAny, calls>>

\* run: the state is nil, the loop is over and the channel is closed.
Close(l) ==
    /\ Running /\ state[l] = "nil"
    /\ closed' = [closed EXCEPT ![l] = TRUE]
    /\ state' = [state EXCEPT ![l] = "done"]
    /\ UNCHANGED <<input, ret, pos, start, width, items, fault, received,
                   atEOF, emitted, lastAny, calls>>

\* The consumer receives from the closed channel: the zero value of item.
ReceiveClosed(l) ==
    /\ Running /\ closed[l] /\ items[l] = <<>> /\ atEOF[l] = <<>>
    /\ atEOF' = [atEOF EXCEPT ![l] = <<ZeroItem>>]
    /\ UNCHANGED <<input, state, ret, pos, start, width, items, closed, fault,
                   received, emitted, lastAny, calls>>

\* The state function named st.
StateFn(st, x) ==
    CASE st = "lexAny" -> lexAny(x)
      [] st = "lexHeading" -> lexHeading(x)
      [] st = "lexHr" -> lexHr(x)
      [] st = "lexGfmCode" -> lexGfmCode(x)
      [] st = "lexCode" -> lexCode(x)
      [] st = "lexList" -> lexList(x)
      [] st = "lexText" -> lexText(x)

\* run, with every send received at once: the items a lexer that runs alone
\* delivers on input in, up to the bound on the items of one run.
RECURSIVE RunAlone(_, _, _)
RunAlone(x, st, out) ==
    IF st = "nil" THEN out
    ELSE LET res == StateFn(st, x) IN
         IF Faulted(res.l) THEN out
         ELSE IF res.item = <<>> THEN RunAlone(res.l, res.state, out)
         ELSE IF Len(out) >= 2 * Len(x.input) + MaxExtraItems THEN out
         ELSE RunAlone([res.l EXCEPT !.start = res.l.pos], res.state, out \o res.item)

Alone(in) ==
    RunAlone([input |-> in, pos |-> 0, start |-> 0, width |-> 0, fault |-> NoFault,
              calls |-> <<>>],
             "lexAny", <<>>)

Next ==
    \E l \in Lexers :
        \/ LexAny(l)
        \/ LexHeading(l)
        \/ LexHr(l)
        \/ LexGfmCode(l)
        \/ LexCode(l)
        \/ LexList(l)
        \/ LexText(l)
        \/ Receive(l)
        \/ EmitReturn(l)
        \/ Close(l)
        \/ ReceiveClosed(l)

Spec == Init /\ [][Next]_vars

\* Two lexers, started by two calls of lex on inputs of TwoInputs.
TwoInputs ==
    {Str("# a\nb"), Str("**\n_a_"), Fence(BQ, 3) \o Str("\na") \o Fence(BQ, 3),
     Str("    a\n"), Str("a  -b"), <<BQ>>}

InitTwo == \E in \in [Lexers -> TwoInputs] : Started(Lexers, in)

SpecTwo == InitTwo /\ [][Next]_vars

\* Fenced inputs: an opening fence of 3..MaxFence backquotes or tildes, a
\* newline, a body of up to MaxBody pieces, and a closing fence of the opening
\* character, of a length of its own.
MaxFence == 4
MaxBody == 2

BodyPieces ==
    {<<"a">>, <<"\n">>, <<BQ>>, <<"~">>, Fence(BQ, 3), Fence("~", 3),
     <<"\n">> \o Fence(BQ, 3) \o <<"\n">>, <<"\n">> \o Fence("~", 3) \o <<"\n">>}

RECURSIVE Bodies(_)
Bodies(n) ==
    IF n = 0 THEN {<<>>}
    ELSE LET shorter == Bodies(n - 1)
         IN  shorter \cup {t \o q : t \in shorter, q \in BodyPieces}

FenceInputs ==
    {Fence(c, m) \o <<"\n">> \o body \o Fence(c, n) :
        c \in {BQ, "~"}, m \in 3..MaxFence, n \in 3..MaxFence, body \in Bodies(MaxBody)}

InitFence ==
    \E in \in FenceInputs \cup Examples :
        Started({1}, [l \in Lexers |-> IF l = 1 THEN in ELSE <<>>])

SpecFence == InitFence /\ [][Next]_vars

\* Indented inputs: nothing or a block before, MinIndent..MaxIndent spaces and
\* up to MaxCode pieces of a line's content.
MinIndent == 4
MaxIndent == 5
MaxCode == 2

CodePieces == {<<"*">>, <<"-">>, <<"_">>, <<"#">>, <<" ">>, <<"\n">>, <<"a">>}

RECURSIVE CodeTexts(_)
CodeTexts(n) ==
    IF n = 0 THEN {<<>>}
    ELSE LET shorter == CodeTexts(n - 1)
         IN  shorter \cup {t \o q : t \in shorter, q \in CodePieces}

IndentInputs ==
    {pre \o Fence(" ", n) \o body :
        pre \in {<<>>, Str("a\n\n"), Str("***\n")},
        n \in MinIndent..MaxIndent,
        body \in CodeTexts(MaxCode)}

InitIndent ==
    \E in \in IndentInputs \cup Examples :
        Started({1}, [l \in Lexers |-> IF l = 1 THEN in ELSE <<>>])

SpecIndent == InitIndent /\ [][Next]_vars

(***************************************************************************)
(* Properties.                                                             *)
(***************************************************************************)

\* C1: the lexer never comes back to lexAny without having consumed input:
\* whenever lexAny is about to run, pos is beyond the position at which lexAny
\* ran the time before (so that the run loop ends after finitely many items).
C1_LexAnyMakesProgress ==
    \A l \in Lexers : state[l] = "lexAny" => pos[l] > lastAny[l]

\* C2: no slice of the input the lexer takes is out of bounds: the lexer never
\* panics, whatever the input.
C2_NoRuntimeFault ==
    \A l \in Lexers : state[l] # "panic" /\ fault[l] = NoFault

\* C3: the emitted items tile the input: the first starts at offset 0, each
\* later one starts where the one before it ends, and the value of each is the
\* bytes of the input from its start offset.
C3_ItemsTileInput ==
    \A l \in Lexers : \A k \in 1..Len(emitted[l]) :
        LET it == emitted[l][k] IN
        /\ it.pos = IF k = 1 THEN 0
                    ELSE emitted[l][k - 1].pos + Len(emitted[l][k - 1].val)
        /\ it.pos + Len(it.val) <= Len(input[l])
        /\ it.val = Slice(input[l], it.pos, it.pos + Len(it.val))

\* Witness of C3: a finished run of three or more items, a block item among them.
C3_Witness ==
    /\ state[1] = "done" /\ Len(emitted[1]) >= 3
    /\ \E k \in 1..Len(emitted[1]) : emitted[1][k].typ = itemHr
    /\ \E k \in 1..Len(emitted[1]) : emitted[1][k].typ = itemText

\* C4: what the consumer has received, followed by the item being offered, is
\* what the state functions have emitted, in order; and when the channel is
\* closed the consumer has received what the lexer run synchronously returns.
C4_HandOffKeepsOrder ==
    \A l \in Lexers :
        /\ received[l] \o items[l] = emitted[l]
        /\ Len(items[l]) <= 1
        /\ state[l] = "done" => received[l] = Alone(input[l])

\* Witness of C4: an item is offered while two or more have been received.
C4_Witness ==
    /\ items[1] # <<>> /\ Len(received[1]) >= 2
    /\ received[1][1] # received[1][2]

\* The program has ended: every lexer has closed its channel, or a panic has
\* ended the process.
Ended == ~Running \/ \A l \in Lexers : state[l] \in {"done", "idle"}

IsPrefix(p, q) == Len(p) <= Len(q) /\ p = SubSeq(q, 1, Len(p))

\* C5: of two lexers run together, each delivers the items it delivers when it
\* runs alone on its input.
C5_EachDeliversAsAlone ==
    Ended => \A l \in Lexers : received[l] = Alone(input[l])

\* No step of one lexer changes what the other delivers: what a lexer has
\* delivered is at every moment a prefix of what it delivers alone, and all of
\* it once its channel is closed.
NoInterference ==
    \A l \in Lexers :
        /\ IsPrefix(received[l], Alone(input[l]))
        /\ state[l] = "done" => received[l] = Alone(input[l])

\* The item lexer l is offering is the first it emits for the top-level
\* position at which lexAny last ran.
TopItemOffered(l) ==
    /\ state[l] = "send" /\ items[l] # <<>>
    /\ items[l][1].pos = lastAny[l]
    /\ \A k \in 1..(Len(emitted[l]) - 1) : emitted[l][k].pos < lastAny[l]

\* input[p:]
From(in, p) == Slice(in, p, Len(in))

\* The kinds of item the plain text run (lexText) emits.
TextRunTypes ==
    {itemText, itemNewLine, itemStrong, itemItalic, itemStrike, itemCode}

\* The rule that decides the token at remaining input s (not empty), by the
\* order horizontal rule, heading, indented code, fenced code, text run.
RuleAt(s) ==
    IF MatchString(blockHr, s) THEN {itemHr}
    ELSE IF MatchString(blockHeading, s) THEN {itemHeading}
    ELSE IF MatchString(blockCodeBlock, s) THEN {itemCodeBlock}
    ELSE IF MatchString(blockGfmCodeBlock, s) THEN {itemGfmCodeBlock}
    ELSE TextRunTypes

\* C6: the token emitted at a top-level position is of the first rule, in the
\* order horizontal rule, heading, indented code block, fenced code block, text
\* run, whose pattern matches the remaining input.
C6_FirstMatchingRuleDecides ==
    \A l \in Lexers :
        TopItemOffered(l) => items[l][1].typ \in RuleAt(From(input[l], lastAny[l]))

\* The line that starts at offset p: the bytes up to the next newline.
RECURSIVE LineEndAt(_, _)
LineEndAt(in, p) ==
    IF p >= Len(in) \/ in[p + 1] = "\n" THEN p ELSE LineEndAt(in, p + 1)
LineAt(in, p) == Slice(in, p, LineEndAt(in, p))

Count(q, c) == Cardinality({i \in 1..Len(q) : q[i] = c})
LeadingSpaces(q) ==
    Cardinality({i \in 1..Len(q) : \A j \in 1..i : q[j] = " "})

\* A line of three or more of one of * - _ and spaces, indented less than a
\* code block.
IsHrLine(q) ==
    /\ LeadingSpaces(q) < 4
    /\ \E c \in {"*", "-", "_"} :
        /\ Count(q, c) >= 3
        /\ \A i \in 1..Len(q) : q[i] \in {c, " "}

\* C7: at a top-level position a horizontal-rule line is emitted as one itemHr
\* that covers the line.
C7_HrLineIsHrItem ==
    \A l \in Lexers :
        (TopItemOffered(l) /\ IsHrLine(LineAt(input[l], lastAny[l])))
            => /\ items[l][1].typ = itemHr
               /\ Len(items[l][1].val) >= Len(LineAt(input[l], lastAny[l]))

\* Offset p is the start of a line after a newline, and no emitted item runs
\* across it.
LineStart(l, p) ==
    /\ p > 0 /\ input[l][p] = "\n"
    /\ \A k \in 1..Len(emitted[l]) :
        ~(emitted[l][k].pos < p /\ p < emitted[l][k].pos + Len(emitted[l][k].val))

\* A line of one to six #, a space and text.
IsHeadingLine(q) ==
    \E n \in 1..6 :
        /\ Len(q) > n + 1
        /\ \A i \in 1..n : q[i] = "#"
        /\ q[n + 1] = " "
        /\ \E i \in (n + 2)..Len(q) : q[i] \notin {" ", "#"}

\* The block that begins with the first byte of the line at offset p:
\* a heading, a horizontal rule or a fenced code block, if any.
BlockAt(in, p) ==
    IF IsHeadingLine(LineAt(in, p)) /\ MatchString(blockHeading, From(in, p))
    THEN {itemHeading}
    ELSE IF in[p + 1] # " " /\ IsHrLine(LineAt(in, p)) /\ MatchString(blockHr, From(in, p))
    THEN {itemHr}
    ELSE IF in[p + 1] \in {BQ, "~"} /\ MatchString(blockGfmCodeBlock, From(in, p))
    THEN {itemGfmCodeBlock}
    ELSE {}

\* C8: a heading, horizontal rule or fenced code block is recognised at the
\* start of every line that follows a newline: when the lexer is done, each
\* such line that begins one has an item of that kind at its offset.
C8_BlocksAtEveryLineStart ==
    \A l \in Lexers :
        state[l] = "done" =>
            \A p \in 0..(Len(input[l]) - 1) :
                LineStart(l, p) =>
                    \A t \in BlockAt(input[l], p) :
                        \E k \in 1..Len(emitted[l]) :
                            emitted[l][k].pos = p /\ emitted[l][k].typ = t

\* The byte at offset p follows an odd number of backslashes.
RECURSIVE Escaped(_, _)
Escaped(in, p) == p > 0 /\ in[p] = "\\" /\ ~Escaped(in, p - 1)

\* C9: a character after a backslash begins no inline-span or heading item.
C9_EscapedStartsNoToken ==
    \A l \in Lexers : \A k \in 1..Len(emitted[l]) :
        emitted[l][k].typ \in {itemStrong, itemItalic, itemStrike, itemCode, itemHeading}
            => ~Escaped(input[l], emitted[l][k].pos)

\* v without the newlines at its end.
RECURSIVE StripNewlines(_)
StripNewlines(v) ==
    IF v # <<>> /\ v[Len(v)] = "\n" THEN StripNewlines(SubSeq(v, 1, Len(v) - 1)) ELSE v

\* v ends with a fence of three or more c.
EndsWithFence(v, c) ==
    LET w == StripNewlines(v)
    IN  Len(w) >= 3 /\ \A i \in (Len(w) - 2)..Len(w) : w[i] = c

\* in is an opening fence of c, a newline, a body without c that is not empty,
\* and a closing fence of c.
FencedBy(in, c) ==
    \E m \in 3..Len(in) : \E n \in 3..Len(in) :
        /\ m + 1 + n < Len(in)
        /\ \A i \in 1..m : in[i] = c
        /\ in[m + 1] = "\n"
        /\ \A i \in (m + 2)..(Len(in) - n) : in[i] # c
        /\ \A i \in (Len(in) - n + 1)..Len(in) : in[i] = c

\* C10: a fenced-code item begins with a fence character and ends with a fence
\* of that same character; and an input that is a fence, a body free of the
\* fence's character (runs of the other fence character may be in it) and a
\* closing fence of the same character, of any length from 3, is one
\* fenced-code item.
C10_FenceClosedBySameCharacter ==
    \A l \in Lexers :
        /\ \A k \in 1..Len(emitted[l]) :
            emitted[l][k].typ = itemGfmCodeBlock =>
                /\ emitted[l][k].val[1] \in {BQ, "~"}
                /\ EndsWithFence(emitted[l][k].val, emitted[l][k].val[1])
        /\ \A c \in {BQ, "~"} :
            (FencedBy(input[l], c) /\ state[l] \notin {"lexAny", "lexGfmCode"})
                => emitted[l][1] = item(itemGfmCodeBlock, 0, input[l])

\* Witness of C10: a block opened by four backquotes, with a line of three
\* tildes in it, closed by three backquotes, has been received as one item.
C10_Witness ==
    /\ input[1] = Fence(BQ, 4) \o Str("\na\n~~~\n") \o Fence(BQ, 3)
    /\ state[1] = "done"
    /\ received[1] = <<item(itemGfmCodeBlock, 0, input[1])>>
(***************************************************************************)
(* Delimiters inside a text run (lexText, lexer.go 205-252).               *)
(***************************************************************************)
Delimiters == {"_", "*", "~", BQ}

AtDelimiter(l) ==
    /\ pos[l] >= 0
    /\ pos[l] < Len(input[l])
    /\ input[l][pos[l] + 1] \in Delimiters

\* C11: a turn of lexText that reads a delimiter at which no span pattern
\* matches offers an itemText holding that one character, moves the position
\* by one and stays in lexText; where a span pattern matches, it offers the
\* match as one item of the span's kind and resumes right behind the match.
C11_DelimiterInText ==
    [][\A l \in Lexers :
          (state[l] = "lexText" /\ state'[l] # "lexText" /\ AtDelimiter(l)) =>
              LET sp == FirstSpan(From(input[l], pos[l]))
                  val == IF sp = <<>> THEN <<input[l][pos[l] + 1]>> ELSE sp[2]
                  typ == IF sp = <<>> THEN itemText ELSE sp[1]
              IN  /\ state'[l] = "send"
                  /\ ret'[l] = "lexText"
                  /\ items'[l] = <<item(typ, pos[l], val)>>
                  /\ pos'[l] = pos[l] + Len(val)]_vars


(***************************************************************************)
(* Headings (block[itemHeading], lexer.go 56; lexHeading, 157-165).        *)
(***************************************************************************)
\* The length of the run of c at the front of s.
RECURSIVE RunLength(_, _)
RunLength(s, c) ==
    IF s # <<>> /\ Head(s) = c THEN 1 + RunLength(Tail(s), c) ELSE 0

\* The number of '#' a line opens with, behind its leading spaces.
HashRun(s) == RunLength(Slice(s, RunLength(s, " "), Len(s)), "#")

\* C12: a heading item is emitted only for a line whose leading run of '#' is
\* 1 to 6 long; a line opening with seven or more '#' yields no heading item.
C12_HeadingHasOneToSixHashes ==
    \A l \in Lexers : \A k \in 1..Len(emitted[l]) :
        emitted[l][k].typ = itemHeading =>
            HashRun(From(input[l], emitted[l][k].pos)) \in 1..6

(***************************************************************************)
(* Emphasis (span[itemStrong], span[itemItalic], lexer.go 63-70).          *)
(***************************************************************************)
\* The length of the front of s that holds no c.
RECURSIVE LengthWithout(_, _)
LengthWithout(s, c) ==
    IF s # <<>> /\ Head(s) # c THEN 1 + LengthWithout(Tail(s), c) ELSE 0

\* The length of the tripled delimiter run s opens with: three c, a body
\* without c, three c (and no fourth); 0 when s opens with no such run.
TripledRun(s) ==
    IF s = <<>> \/ Head(s) \notin {"*", "_"} THEN 0
    ELSE LET c == Head(s)
             body == LengthWithout(Slice(s, 3, Len(s)), c)
         IN  IF /\ RunLength(s, c) = 3
                /\ body > 0
                /\ RunLength(Slice(s, 3 + body, Len(s)), c) = 3
             THEN 6 + body ELSE 0

\* C13: an emphasis item emitted where a tripled delimiter run opens covers
\* the whole run, up to the last closing delimiter.
C13_TripledRunIsOneSpan ==
    \A l \in Lexers : \A k \in 1..Len(emitted[l]) :
        LET it == emitted[l][k]
            run == TripledRun(From(input[l], it.pos))
        IN  (it.typ \in {itemStrong, itemItalic} /\ run > 0) =>
                Len(it.val) = run

(***************************************************************************)
(* The hand-off of items (lex, lexer.go 89-97; emit, 267-270).             *)
(***************************************************************************)
\* C14: the lexer is never more than one item ahead of the consumer: at most
\* one emitted item waits to be received, the items emitted and not received
\* are exactly the waiting ones, emit has returned only when nothing waits,
\* and start is not past the end of the item being offered.
C14_AtMostOneItemAhead ==
    \A l \in Lexers :
        /\ Len(items[l]) <= 1
        /\ Len(emitted[l]) = Len(received[l]) + Len(items[l])
        /\ state[l] # "send" => items[l] = <<>>
        /\ items[l] # <<>> =>
               /\ items[l][1] = emitted[l][Len(emitted[l])]
               /\ start[l] <= items[l][1].pos + Len(items[l][1].val)

\* A second item waits while the first one has been received.
C14_Witness ==
    \E l \in Lexers :
        /\ state[l] = "send"
        /\ Len(received[l]) >= 1
        /\ Len(items[l]) = 1
        /\ items[l][1].val # <<>>

(***************************************************************************)
(* Indented code (block[itemCodeBlock], lexer.go 58; lexAny, 135-141).     *)
(***************************************************************************)
\* A line of four or more spaces and at least one more character.
IsIndentedLine(q) == LeadingSpaces(q) >= MinIndent /\ Len(q) > MinIndent

\* C15: the item for a top-level position at which an indented line begins is
\* an indented code block that holds the line, whatever the line's content:
\* no horizontal rule and no heading is emitted for it.
C15_IndentedLineIsCodeBlock ==
    \A l \in Lexers :
        (TopItemOffered(l) /\ IsIndentedLine(LineAt(input[l], lastAny[l]))) =>
            /\ items[l][1].typ = itemCodeBlock
            /\ IsPrefix(LineAt(input[l], lastAny[l]), items[l][1].val)

\* An indented line that reads as a horizontal rule or a heading, behind
\* another item, is offered as a code block.
C15_Witness ==
    \E l \in Lexers :
        /\ TopItemOffered(l)
        /\ lastAny[l] > 0
        /\ IsIndentedLine(LineAt(input[l], lastAny[l]))
        /\ \/ IsHrLine(From(LineAt(input[l], lastAny[l]), MinIndent))
           \/ HashRun(LineAt(input[l], lastAny[l])) > 0
        /\ items[l][1].typ = itemCodeBlock

(***************************************************************************)
(* Fenced code without content (reGfmCode, lexer.go 49-52).                *)
(***************************************************************************)
\* s opens with a fence line that the closing fence of the same character
\* follows at once.
OpensEmptyFence(s) ==
    \E c \in {BQ, "~"} :
        LET open == RunLength(s, c)
        IN  /\ open >= 3
            /\ Len(s) > open
            /\ s[open + 1] = "\n"
            /\ RunLength(Slice(s, open + 1, Len(s)), c) >= 3

\* C16: the item for a top-level position at which a fenced code block
\* without content begins is one fenced-code-block item, not an inline-code
\* span and not text.
C16_EmptyFenceIsGfmCodeBlock ==
    \A l \in Lexers :
        (TopItemOffered(l) /\ OpensEmptyFence(From(input[l], lastAny[l]))) =>
            items[l][1].typ = itemGfmCodeBlock

(***************************************************************************)
(* The items of a whole run (run, lexer.go 100-105).                       *)
(***************************************************************************)
\* The values of the items of its, one behind the other.
RECURSIVE Values(_)
Values(its) == IF its = <<>> THEN <<>> ELSE Head(its).val \o Values(Tail(its))

\* C17: when the lexer has closed the channel, the values of the emitted
\* items, in order, make up the whole input.
C17_ItemsMakeUpInput ==
    \A l \in Lexers : closed[l] => Values(emitted[l]) = input[l]

(***************************************************************************)
(* The cursors (lexer, lexer.go 76-86; next, backup, peek).                *)
(***************************************************************************)
\* C18: in every state start and pos are offsets into the input, and start is
\* not behind pos: 0 <= start <= pos <= len(input).
C18_CursorsInOrder ==
    \A l \in Lexers :
        /\ 0 <= start[l]
        /\ start[l] <= pos[l]
        /\ pos[l] <= Len(input[l])

\* Every backup of cs comes right behind a next.
BackupFollowsNext(cs) ==
    \A i \in 1..Len(cs) : cs[i] = "backup" => (i > 1 /\ cs[i - 1] = "next")

\* C19: backup is called at most once per call of next, so that between two
\* calls of backup there is a call of next, and it steps back over the rune
\* its caller read last: when lexAny hands over to another state function,
\* its backup has put pos back where lexAny found it.
C19_BackupOncePerNext ==
    /\ [](\A l \in Lexers : BackupFollowsNext(calls[l]))
    /\ [][\A l \in Lexers :
             (state[l] = "lexAny" /\ state'[l] \notin {"lexAny", "nil", "panic"})
                 => pos'[l] = pos[l]]_vars

\* C20: every emitted item holds at least one byte, and once emit has
\* returned start is the item's start offset plus the length of its value.
C20_NoEmptyItem ==
    \A l \in Lexers : \A k \in 1..Len(emitted[l]) :
        /\ Len(emitted[l][k].val) >= 1
        /\ (k = Len(emitted[l]) /\ state[l] \notin {"send", "sent"}) =>
               start[l] = emitted[l][k].pos + Len(emitted[l][k].val)

(***************************************************************************)
(* Block items and lines (lexAny, lexer.go 120-154; lexText, 209-215).     *)
(***************************************************************************)
\* The offset at which the line that holds offset p begins.
RECURSIVE LineBeginAt(_, _)
LineBeginAt(in, p) ==
    IF p <= 0 \/ in[p] = "\n" THEN p ELSE LineBeginAt(in, p - 1)

\* The kinds of item the block rules emit.
BlockTypes == {itemHeading, itemHr, itemCodeBlock, itemGfmCodeBlock}

\* C21: a heading, horizontal-rule or code-block item never starts in the
\* middle of a line: only spaces lie between the beginning of its line and
\* the item.
C21_BlockItemsStartALine ==
    \A l \in Lexers : \A k \in 1..Len(emitted[l]) :
        LET it == emitted[l][k] IN
        it.typ \in BlockTypes =>
            \A i \in (LineBeginAt(input[l], it.pos) + 1)..it.pos :
                input[l][i] = " "

(***************************************************************************)
(* The end of the items (run, lexer.go 100-105; eof, itemError, 22-26).    *)
(***************************************************************************)
\* The kinds of item the lexer emits for tokens.
TokenTypes == BlockTypes \cup TextRunTypes

\* C22: what the consumer receives once the lexer has finished is the zero
\* value of item, and its kind marks the end of the input: it is not
\* itemError and not a kind the lexer emits for tokens.
C22_ZeroItemMarksEOF ==
    \A l \in Lexers :
        atEOF[l] # <<>> =>
            /\ atEOF[l] = <<ZeroItem>>
            /\ atEOF[l][1].typ # itemError
            /\ atEOF[l][1].typ \notin TokenTypes

\* C23: the channel is closed once, by the step that leaves the nil state,
\* when every emitted item has been received; behind the close nothing is
\* emitted or offered and the channel stays closed; and no item of kind
\* itemError is ever emitted.
C23_ClosedOnceAtTheEnd ==
    /\ [](\A l \in Lexers :
            /\ closed[l] =>
                   /\ state[l] = "done"
                   /\ items[l] = <<>>
                   /\ received[l] = emitted[l]
            /\ \A k \in 1..Len(emitted[l]) : emitted[l][k].typ # itemError)
    /\ [][\A l \in Lexers :
             /\ (~closed[l] /\ closed'[l]) => state[l] = "nil"
             /\ closed[l] =>
                    /\ closed'[l]
                    /\ state'[l] = "done"
                    /\ emitted'[l] = emitted[l]
                    /\ items'[l] = <<>>]_vars

\* The channel is closed behind two or more items, and the consumer has
\* received from the closed channel.
C23_Witness ==
    \E l \in Lexers :
        /\ closed[l]
        /\ Len(emitted[l]) >= 2
        /\ atEOF[l] # <<>>

====
